---- MODULE Spec2Model ----
(***************************************************************************)
(* Model of app.py, the image-metadata reconciliation tool: the parser    *)
(* boundary (parse_metadata), key inference (detect_primary_key), the     *)
(* outer-join matcher (match_data), header clean-up                       *)
(* (clean_column_headers) and the reconciliation pass of results_page.    *)
(*                                                                         *)
(* Conventions.  A pandas DataFrame is the record                          *)
(*   [columns, dtypes, index, data]                                        *)
(* with columns a sequence of names, dtypes the dtype of each column       *)
(* ("num" for int64/float64, "obj" for object/str, "cat" for the merge     *)
(* indicator), index the row labels and data the rows, each a sequence of  *)
(* cells, positionally aligned with columns.  Sequences are 1-based, so    *)
(* Python's df.columns[0] is columns[1] and the RangeIndex 0..n-1 is       *)
(* 1..n.  A name is a sequence of characters, a character a one-element    *)
(* string ("U+0130" and "U+0307" name two non-ASCII code points).  A       *)
(* missing cell (None / NaN) is Null.  A cell value 1, 2, ... in a "num"   *)
(* column is that number, in an "obj" column the string numbered so.       *)
(***************************************************************************)
EXTENDS Integers, Sequences, FiniteSets

VARIABLES pc, session_state, metadata_df, customer_df, meta_key, cust_key,
          matched_df, unmatched_df, heap, diag, fault, call, ret

vars == <<pc, session_state, metadata_df, customer_df, meta_key, cust_key,
          matched_df, unmatched_df, heap, diag, fault, call, ret>>

\* Largest number of rows of a generated input table.
MaxRows == 2

Null == 0

\* A string that is None (or empty): falsy, and no supported format.
NoString == <<>>

Range(s) == {s[i] : i \in 1..Len(s)}

Min(S) == CHOOSE x \in S : \A y \in S : x <= y

\* The outcome of a Python call: a returned value or a raised exception.
Return(v) == [kind |-> "return", val |-> v]

Raise(e) == [kind |-> "raise", exc |-> e]

----------------------------------------------------------------------------
(* Column names used by the generated tables. *)

ID == <<"i", "d">>

CUST_ID == <<"c", "u", "s", "t", "_", "i", "d">>

FILE == <<"f", "i", "l", "e">>

COL_A == <<"a">>

COL_B == <<"b">>

COL_C == <<"c">>

----------------------------------------------------------------------------
(* st.session_state: the page and, of the ten required keys, the bucket    *)
(* names and file keys (the six credential keys are tested for emptiness   *)
(* exactly as the bucket names are).                                       *)

NO_FILES ==
    <<"N", "o", " ", "f", "i", "l", "e", "s", " ",
      "a", "v", "a", "i", "l", "a", "b", "l", "e">>

\* The defaults main() gives the keys.
DefaultSession ==
    [page |-> "home", bucket_name |-> <<>>, file_key |-> <<>>,
     cust_bucket_name |-> <<>>, cust_file_key |-> <<>>]

\* The test of results_page before any S3 call.
SessionValid(ss) ==
    /\ ss.bucket_name # <<>>
    /\ ss.file_key # <<>>
    /\ ss.cust_bucket_name # <<>>
    /\ ss.cust_file_key # <<>>
    /\ ss.file_key # NO_FILES
    /\ ss.cust_file_key # NO_FILES

----------------------------------------------------------------------------
(* DataFrames. *)

EmptyFrame == [columns |-> <<>>, dtypes |-> <<>>, index |-> <<>>, data |-> <<>>]

\* df.empty: any axis of length 0.
IsEmpty(df) == Len(df.columns) = 0 \/ Len(df.data) = 0

\* Position of the column called name (names are unique in parsed tables).
ColPos(df, name) == Min({i \in 1..Len(df.columns) : df.columns[i] = name})

\* df[column].is_unique: no value occurs twice; NaN counts as a value.
IsUnique(df, p) ==
    \A i, j \in 1..Len(df.data) : i # j => df.data[i][p] # df.data[j][p]

\* df[column].notnull().all()
NotNullAll(df, p) == \A i \in 1..Len(df.data) : df.data[i][p] # Null

\* detect_primary_key with the notnull() test left out.
DetectPrimaryKeyNoNullTest(df) ==
    LET n == Len(df.columns)
        Scan[p \in 1..(n + 1)] ==
            IF p > n
            THEN IF n = 0 THEN Raise("IndexError") ELSE Return(df.columns[1])
            ELSE IF IsUnique(df, p)
                 THEN Return(df.columns[p])
                 ELSE Scan[p + 1]
    IN Scan[1]

\* detect_primary_key that answers a made-up name for a table without columns.
DetectPrimaryKeyFabricated(df) ==
    LET n == Len(df.columns)
        Scan[p \in 1..(n + 1)] ==
            IF p > n
            THEN IF n = 0 THEN Return(ID) ELSE Return(df.columns[1])
            ELSE IF IsUnique(df, p) /\ NotNullAll(df, p)
                 THEN Return(df.columns[p])
                 ELSE Scan[p + 1]
    IN Scan[1]

\* detect_primary_key: the loop over df.columns, then the fallback
\* df.columns[0], which raises IndexError on an Index of length 0.
DetectPrimaryKey(df) ==
    LET n == Len(df.columns)
        Scan[p \in 1..(n + 1)] ==
            IF p > n
            THEN IF n = 0 THEN Raise("IndexError") ELSE Return(df.columns[1])
            ELSE IF IsUnique(df, p) /\ NotNullAll(df, p)
                 THEN Return(df.columns[p])
                 ELSE Scan[p + 1]
    IN Scan[1]

----------------------------------------------------------------------------
(* pd.merge(left, right, left_on, right_on, how='outer', indicator=True). *)

MERGE == <<"_", "m", "e", "r", "g", "e">>

SUFFIX_X == <<"_", "x">>

SUFFIX_Y == <<"_", "y">>

KeyCell(df, key, i) == df.data[i][ColPos(df, key)]

\* The rows of df whose key cell is k, in row order.  Null keys are equal
\* to each other: pd.merge matches NaN/None keys against each other.
RowsWithKey(df, key, k) ==
    SelectSeq([i \in 1..Len(df.data) |-> i], LAMBDA i : KeyCell(df, key, i) = k)

\* The order of the keys of an outer join: ascending, missing keys last.
KeyBefore(a, b) == a # Null /\ (b = Null \/ a < b)

RECURSIVE SortKeys(_)
SortKeys(S) ==
    IF S = {} THEN <<>>
    ELSE LET m == CHOOSE x \in S : \A y \in S \ {x} : KeyBefore(x, y)
         IN <<m>> \o SortKeys(S \ {m})

\* One key group joined row by row instead of every left row with every right row.
JoinBlockZip(L, R) ==
    IF L = <<>> THEN [j \in 1..Len(R) |-> <<0, R[j]>>]
    ELSE IF R = <<>> THEN [i \in 1..Len(L) |-> <<L[i], 0>>]
    ELSE [n \in 1..(IF Len(L) < Len(R) THEN Len(L) ELSE Len(R)) |-> <<L[n], R[n]>>]

\* One key group of an inner join: rows without a partner are dropped.
JoinBlockInner(L, R) ==
    IF L = <<>> \/ R = <<>> THEN <<>>
    ELSE [n \in 1..(Len(L) * Len(R)) |->
            <<L[((n - 1) \div Len(R)) + 1], R[((n - 1) % Len(R)) + 1]>>]

\* The joined rows of one key group, as pairs <<left row, right row>> with 0
\* for no row: every left row with every right row, or each row alone when
\* the other side has none.
JoinBlock(L, R) ==
    IF L = <<>> THEN [j \in 1..Len(R) |-> <<0, R[j]>>]
    ELSE IF R = <<>> THEN [i \in 1..Len(L) |-> <<L[i], 0>>]
    ELSE [n \in 1..(Len(L) * Len(R)) |->
            <<L[((n - 1) \div Len(R)) + 1], R[((n - 1) % Len(R)) + 1]>>]

\* The rows of the outer join, in order.
JoinPairs(left, right, lk, rk) ==
    LET keys == SortKeys({KeyCell(left, lk, i) : i \in 1..Len(left.data)}
                         \cup {KeyCell(right, rk, j) : j \in 1..Len(right.data)})
        F[n \in 0..Len(keys)] ==
            IF n = 0 THEN <<>>
            ELSE F[n - 1] \o JoinBlock(RowsWithKey(left, lk, keys[n]),
                                       RowsWithKey(right, rk, keys[n]))
    IN F[Len(keys)]

\* Equal key names make one output column: the right key column is dropped.
SharedKey(lk, rk) == lk = rk

\* Positions of the right columns that the result keeps.
RightKept(right, lk, rk) ==
    SelectSeq([p \in 1..Len(right.columns) |-> p],
              LAMBDA p : ~(SharedKey(lk, rk) /\ right.columns[p] = rk))

\* Names found on both sides get the suffixes _x and _y.
Overlap(left, right, lk, rk) ==
    Range(left.columns) \cap
        {right.columns[RightKept(right, lk, rk)[q]] : q \in 1..Len(RightKept(right, lk, rk))}

LeftNames(left, right, lk, rk) ==
    [p \in 1..Len(left.columns) |->
        IF left.columns[p] \in Overlap(left, right, lk, rk)
        THEN left.columns[p] \o SUFFIX_X ELSE left.columns[p]]

RightNames(right, left, lk, rk) ==
    LET keep == RightKept(right, lk, rk)
    IN [q \in 1..Len(keep) |->
            IF right.columns[keep[q]] \in Overlap(left, right, lk, rk)
            THEN right.columns[keep[q]] \o SUFFIX_Y ELSE right.columns[keep[q]]]

Indicator(pair) ==
    IF pair[1] # 0 /\ pair[2] # 0 THEN "both"
    ELSE IF pair[1] # 0 THEN "left_only" ELSE "right_only"

\* The output row of one joined pair: the left cells, the kept right cells,
\* the indicator.  A missing side is Null, except that a shared key column
\* takes the key of whichever side is present.
MergedRow(left, right, lk, rk, pair) ==
    LET keep == RightKept(right, lk, rk)
    IN [p \in 1..Len(left.columns) |->
            IF pair[1] # 0 THEN left.data[pair[1]][p]
            ELSE IF SharedKey(lk, rk) /\ p = ColPos(left, lk)
                 THEN KeyCell(right, rk, pair[2])
                 ELSE Null]
       \o [q \in 1..Len(keep) |->
            IF pair[2] # 0 THEN right.data[pair[2]][keep[q]] ELSE Null]
       \o <<Indicator(pair)>>

\* Merging a numeric key with an object (string) key raises ValueError when
\* both sides have rows.
KeyDtypesClash(left, right, lk, rk) ==
    /\ Len(left.data) > 0
    /\ Len(right.data) > 0
    /\ left.dtypes[ColPos(left, lk)] # right.dtypes[ColPos(right, rk)]

PdMerge(left, right, lk, rk) ==
    IF KeyDtypesClash(left, right, lk, rk) THEN Raise("ValueError")
    ELSE LET pairs == JoinPairs(left, right, lk, rk)
             keep == RightKept(right, lk, rk)
         IN Return([columns |-> LeftNames(left, right, lk, rk)
                                    \o RightNames(right, left, lk, rk) \o <<MERGE>>,
                    dtypes |-> left.dtypes \o [q \in 1..Len(keep) |-> right.dtypes[keep[q]]]
                                    \o <<"cat">>,
                    index |-> [n \in 1..Len(pairs) |-> n],
                    data |-> [n \in 1..Len(pairs) |->
                                 MergedRow(left, right, lk, rk, pairs[n])]])

\* df[name] == v and df[name] != v: a boolean mask over the rows.
Eq(df, name, v) == [i \in 1..Len(df.data) |-> df.data[i][ColPos(df, name)] = v]

Ne(df, name, v) == [i \in 1..Len(df.data) |-> df.data[i][ColPos(df, name)] # v]

\* df[mask]: the rows where the mask is true, labels kept.
RowsWhere(df, mask) ==
    LET keep == SelectSeq([i \in 1..Len(df.data) |-> i], LAMBDA i : mask[i])
    IN [df EXCEPT !.index = [n \in 1..Len(keep) |-> df.index[keep[n]]],
                  !.data = [n \in 1..Len(keep) |-> df.data[keep[n]]]]

\* match_data whose unmatched part keeps the left-only rows alone.
MatchDataLeftOnly(meta_df, cust_df, mk, ck) ==
    LET merged == PdMerge(meta_df, cust_df, mk, ck)
    IN IF merged.kind = "raise" THEN merged
       ELSE Return(<<RowsWhere(merged.val, Eq(merged.val, MERGE, "both")),
                     RowsWhere(merged.val, Eq(merged.val, MERGE, "left_only"))>>)

\* match_data: the outer merge split on the indicator.
MatchData(meta_df, cust_df, mk, ck) ==
    LET merged == PdMerge(meta_df, cust_df, mk, ck)
    IN IF merged.kind = "raise" THEN merged
       ELSE Return(<<RowsWhere(merged.val, Eq(merged.val, MERGE, "both")),
                     RowsWhere(merged.val, Ne(merged.val, MERGE, "both"))>>)

----------------------------------------------------------------------------
(* Strings: str.replace, str.title, str.upper, str.split on the characters  *)
(* the model uses.                                                          *)

LowerLetters ==
    <<"a", "b", "c", "d", "e", "f", "g", "h", "i", "j", "k", "l", "m",
      "n", "o", "p", "q", "r", "s", "t", "u", "v", "w", "x", "y", "z">>

UpperLetters ==
    <<"A", "B", "C", "D", "E", "F", "G", "H", "I", "J", "K", "L", "M",
      "N", "O", "P", "Q", "R", "S", "T", "U", "V", "W", "X", "Y", "Z">>

\* LATIN CAPITAL LETTER I WITH DOT ABOVE; its lowercase is two code points,
\* "i" and COMBINING DOT ABOVE, and the combining mark is not a cased character.
DOTTED_I == "U+0130"

DOT_ABOVE == "U+0307"

LetterPos(letters, c) == CHOOSE i \in 1..Len(letters) : letters[i] = c

IsCased(c) == c \in Range(LowerLetters) \cup Range(UpperLetters) \cup {DOTTED_I}

ToLower(c) ==
    IF c \in Range(UpperLetters) THEN <<LowerLetters[LetterPos(UpperLetters, c)]>>
    ELSE IF c = DOTTED_I THEN <<"i", DOT_ABOVE>>
    ELSE <<c>>

ToTitle(c) ==
    IF c \in Range(LowerLetters) THEN <<UpperLetters[LetterPos(LowerLetters, c)]>>
    ELSE <<c>>

\* s.replace(old, new) for one-character old and new.
StrReplace(s, old, new) == [i \in 1..Len(s) |-> IF s[i] = old THEN new ELSE s[i]]

\* s.title(): a character that follows a cased character is lowercased,
\* any other is titlecased.
StrTitle(s) ==
    LET F[i \in 0..Len(s)] ==
            IF i = 0 THEN <<>>
            ELSE F[i - 1] \o (IF i > 1 /\ IsCased(s[i - 1]) THEN ToLower(s[i])
                              ELSE ToTitle(s[i]))
    IN F[Len(s)]

\* s.upper()
StrUpper(s) ==
    LET F[i \in 0..Len(s)] ==
            IF i = 0 THEN <<>> ELSE F[i - 1] \o ToTitle(s[i])
    IN F[Len(s)]

\* s.split(".")[-1]
LastDotPart(s) ==
    LET dots == {i \in 1..Len(s) : s[i] = "."}
        from == IF dots = {} THEN 1 ELSE (CHOOSE i \in dots : \A j \in dots : j <= i) + 1
    IN SubSeq(s, from, Len(s))

\* col.replace('_', ' ').title()
CleanName(col) == StrTitle(StrReplace(col, "_", " "))

\* clean_column_headers on the heap h: assigns df.columns of the object ref
\* and returns ref itself.
CleanColumnHeaders(h, ref) ==
    [heap |-> [h EXCEPT ![ref].columns =
                  [p \in 1..Len(h[ref].columns) |-> CleanName(h[ref].columns[p])]],
     val |-> ref]

\* df.drop(columns=[name]): a new frame without the column.
DropColumn(df, name) ==
    LET keep == SelectSeq([p \in 1..Len(df.columns) |-> p],
                          LAMBDA p : df.columns[p] # name)
    IN [columns |-> [q \in 1..Len(keep) |-> df.columns[keep[q]]],
        dtypes |-> [q \in 1..Len(keep) |-> df.dtypes[keep[q]]],
        index |-> df.index,
        data |-> [i \in 1..Len(df.data) |-> [q \in 1..Len(keep) |-> df.data[i][keep[q]]]]]

----------------------------------------------------------------------------
(* parse_metadata and fetch_s3_file. *)

\* What a file holds: nothing (None), or bytes of some length that are
\* valid UTF-8 or not and that the parser of one format (shape) accepts, as
\* the table given, or that no parser accepts ("junk").
NoContent == [kind |-> "none", size |-> 0, utf8 |-> TRUE, shape |-> "junk", table |-> EmptyFrame]

ZeroBytes == [kind |-> "bytes", size |-> 0, utf8 |-> TRUE, shape |-> "junk", table |-> EmptyFrame]

SomeBytes(utf8, shape, table) ==
    [kind |-> "bytes", size |-> 1, utf8 |-> utf8, shape |-> shape, table |-> table]

\* Python truthiness of file_content: None and b"" are false.
Truthy(content) == content.kind = "bytes" /\ content.size > 0

\* file_content.decode('utf-8')
Decode(content) ==
    IF content.kind = "none" THEN Raise("AttributeError")
    ELSE IF ~content.utf8 THEN Raise("UnicodeDecodeError")
    ELSE Return(content)

\* pd.read_csv / pd.read_json on the decoded text.
ReadText(content, format) ==
    IF content.size > 0 /\ content.shape = format THEN Return(content.table)
    ELSE Raise(IF format = "CSV" THEN "ParserError" ELSE "ValueError")

\* The XML branch: every cell is the text of an element, so every column is
\* an object column.
ReadXml(content) ==
    IF content.kind = "bytes" /\ content.size > 0 /\ content.shape = "XML"
    THEN Return([content.table EXCEPT
                    !.dtypes = [p \in 1..Len(content.table.dtypes) |-> "obj"]])
    ELSE Raise("ParseError")

\* The body of the try block: the parsed frame, or the exception raised.
\* The else branch touches neither the content nor a decoder.
ParseBody(file_content, filetype) ==
    IF filetype = <<"C", "S", "V">>
    THEN IF Decode(file_content).kind = "raise" THEN Decode(file_content)
         ELSE ReadText(file_content, "CSV")
    ELSE IF filetype = <<"J", "S", "O", "N">>
    THEN IF Decode(file_content).kind = "raise" THEN Decode(file_content)
         ELSE ReadText(file_content, "JSON")
    ELSE IF filetype = <<"X", "M", "L">>
    THEN ReadXml(file_content)
    ELSE Return(EmptyFrame)

Supported(filetype) ==
    filetype \in {<<"C", "S", "V">>, <<"J", "S", "O", "N">>, <<"X", "M", "L">>}

\* parse_metadata without its except clause.
ParseMetadataNoExcept(file_content, filetype, filename) ==
    LET body == ParseBody(file_content, filetype)
    IN IF body.kind = "raise"
       THEN [kind |-> "raise", val |-> EmptyFrame, diag |-> <<>>]
       ELSE [kind |-> "return", val |-> body.val,
             diag |-> IF Supported(filetype) THEN <<>>
                      ELSE <<[level |-> "warning", text |-> "Unsupported file format.",
                              source |-> NoString, exc |-> ""]>>]

\* parse_metadata: the frame returned and the messages shown.
ParseMetadata(file_content, filetype, filename) ==
    LET body == ParseBody(file_content, filetype)
    IN IF body.kind = "raise"
       THEN [kind |-> "return", val |-> EmptyFrame,
             diag |-> <<[level |-> "error", text |-> "Failed to parse file",
                         source |-> filename, exc |-> body.exc]>>]
       ELSE [kind |-> "return", val |-> body.val,
             diag |-> IF Supported(filetype) THEN <<>>
                      ELSE <<[level |-> "warning", text |-> "Unsupported file format.",
                              source |-> NoString, exc |-> ""]>>]

\* fetch_s3_file: response is what s3.get_object does for the key.
FetchS3File(bucket_name, file_key, response) ==
    LET failure ==
            IF bucket_name = <<>> \/ file_key = <<>> THEN Raise("ValueError") ELSE response
    IN IF failure.kind = "raise"
       THEN [content |-> NoContent, filename |-> NoString,
             diag |-> <<[level |-> "error", text |-> "Failed to fetch file from S3",
                         source |-> NoString, exc |-> failure.exc]>>]
       ELSE [content |-> response.val, filename |-> file_key, diag |-> <<>>]

----------------------------------------------------------------------------
(* Generated input tables. *)

\* The frame with the given columns and dtypes and the rows d, labelled 1..n.
Frame(cols, dts, d) ==
    [columns |-> cols, dtypes |-> dts, index |-> [i \in 1..Len(d) |-> i], data |-> d]

Prefix(s, k) == [i \in 1..k |-> s[i]]

\* Tables for key inference: zero to three columns a, b, c.
KeyCols == <<COL_A, COL_B, COL_C>>

KeyCells == {Null} \cup (1..MaxRows)

\* Tables for matching: a key column (id or cust_id) with or without a
\* payload column (file).
LeftSchemas == {<<ID>>, <<ID, FILE>>}

RightSchemas == {<<ID>>, <<CUST_ID, FILE>>}

MatchKeyCells == {Null, 1, 2}

PayloadCells == {Null, 1}

CellsOf(name) == IF name = FILE THEN PayloadCells ELSE MatchKeyCells

RowsOf(cols) ==
    {r \in [1..Len(cols) -> MatchKeyCells \cup PayloadCells] :
        \A p \in 1..Len(cols) : r[p] \in CellsOf(cols[p])}

\* The payload holds strings; a key column holds numbers or strings (kd).
\* A table without rows has object columns only.
DtypesOf(cols, kd, n) ==
    [p \in 1..Len(cols) |-> IF n = 0 \/ cols[p] = FILE THEN "obj" ELSE kd]

----------------------------------------------------------------------------
(* Key inference applied to every generated table. *)

Idle ==
    /\ session_state = DefaultSession
    /\ customer_df = EmptyFrame
    /\ cust_key = Null
    /\ matched_df = Null
    /\ unmatched_df = Null
    /\ heap = <<>>
    /\ diag = <<>>
    /\ fault = "none"
    /\ call = Null

InitKey ==
    /\ pc = "key_call"
    /\ \E k \in 0..Len(KeyCols), n \in 0..MaxRows :
          \E d \in [1..n -> [1..k -> KeyCells]] :
              metadata_df = Frame(Prefix(KeyCols, k), [p \in 1..k |-> "num"], d)
    /\ meta_key = Null
    /\ ret = Null
    /\ Idle

CallDetectPrimaryKey ==
    /\ pc = "key_call"
    /\ ret' = DetectPrimaryKey(metadata_df)
    /\ meta_key' = IF ret'.kind = "return" THEN ret'.val ELSE Null
    /\ pc' = "key_done"
    /\ UNCHANGED <<session_state, metadata_df, customer_df, cust_key, matched_df, unmatched_df,
                   heap, diag, fault, call>>

NextKey == CallDetectPrimaryKey

SpecKey == InitKey /\ [][NextKey]_vars

\* Columns whose values are all non-null and pairwise distinct.
GoodColumns(df) ==
    {p \in 1..Len(df.columns) :
        /\ \A i \in 1..Len(df.data) : df.data[i][p] # Null
        /\ Cardinality({df.data[i][p] : i \in 1..Len(df.data)}) = Len(df.data)}

RowOrders(n) == {f \in [1..n -> 1..n] : \A i, j \in 1..n : i # j => f[i] # f[j]}

Reordered(df, f) == [df EXCEPT !.data = [i \in 1..Len(df.data) |-> df.data[f[i]]]]

WithCell(df, i, p, v) == [df EXCEPT !.data[i][p] = v]

\* C1: on a table with at least one column, key inference returns the
\* leftmost column that is all non-null and pairwise distinct, else the
\* first column; the answer is the same for every row order and, when a
\* column qualifies, for every change of a cell to the right of it.
C1_LeftmostUniqueNonNull ==
    (pc = "key_done" /\ Len(metadata_df.columns) >= 1) =>
        LET df == metadata_df
            good == GoodColumns(df)
        IN /\ ret.kind = "return"
           /\ ret.val = IF good # {} THEN df.columns[Min(good)] ELSE df.columns[1]
           /\ \A f \in RowOrders(Len(df.data)) :
                  DetectPrimaryKey(Reordered(df, f)) = ret
           /\ good # {} =>
                  \A p \in (Min(good) + 1)..Len(df.columns), i \in 1..Len(df.data),
                     v \in KeyCells :
                      DetectPrimaryKey(WithCell(df, i, p, v)) = ret

\* A table [a, b, c] whose first column has a null, whose second is the
\* first fully populated, fully distinct one, and which key inference was run on.
C1_Witness ==
    /\ pc = "key_done"
    /\ Len(metadata_df.columns) = 3
    /\ Len(metadata_df.data) = 2
    /\ ~NotNullAll(metadata_df, 1)
    /\ GoodColumns(metadata_df) = {2}
    /\ ret = Return(COL_B)

\* C8: key inference on a table with no columns raises (IndexError from
\* df.columns[0]); it returns no column name.  A parse failure, by contrast,
\* is a normal return of the empty table.
C8_NoColumnsRaises ==
    (pc = "key_done" /\ Len(metadata_df.columns) = 0) =>
        /\ ret.kind = "raise"
        /\ ret.exc = "IndexError"

C8_Witness ==
    /\ pc = "key_done"
    /\ Len(metadata_df.columns) = 0
    /\ ret.kind = "raise"

----------------------------------------------------------------------------
(* match_data applied to every pair of generated tables and key columns. *)

InitMatch ==
    /\ pc = "match_call"
    /\ \E lc \in LeftSchemas, rc \in RightSchemas, ln \in 0..MaxRows, rn \in 0..MaxRows,
          lkd \in {"num", "obj"}, rkd \in {"num"} :
          \E ld \in [1..ln -> RowsOf(lc)], rd \in [1..rn -> RowsOf(rc)] :
              /\ metadata_df = Frame(lc, DtypesOf(lc, lkd, ln), ld)
              /\ customer_df = Frame(rc, DtypesOf(rc, rkd, rn), rd)
              /\ meta_key \in Range(lc)
              /\ cust_key \in Range(rc)
    /\ session_state = DefaultSession
    /\ matched_df = Null
    /\ unmatched_df = Null
    /\ heap = <<>>
    /\ diag = <<>>
    /\ fault = "none"
    /\ call = Null
    /\ ret = Null

CallMatchData ==
    /\ pc = "match_call"
    /\ ret' = MatchData(metadata_df, customer_df, meta_key, cust_key)
    /\ matched_df' = IF ret'.kind = "return" THEN ret'.val[1] ELSE Null
    /\ unmatched_df' = IF ret'.kind = "return" THEN ret'.val[2] ELSE Null
    /\ pc' = "match_done"
    /\ UNCHANGED <<session_state, metadata_df, customer_df, meta_key, cust_key, heap, diag,
                   fault, call>>

NextMatch == CallMatchData

SpecMatch == InitMatch /\ [][NextMatch]_vars

\* The joined pair (left row, right row; 0 for none) behind row i of a part
\* of the merge result, found through the row's index label.
MergePairs == JoinPairs(metadata_df, customer_df, meta_key, cust_key)

Origin(pairs, df, i) == pairs[df.index[i]]

\* Row i of df is left row l: it stems from l and shows l's cells.
CarriesLeft(pairs, df, i, l) ==
    /\ Origin(pairs, df, i)[1] = l
    /\ \A p \in 1..Len(metadata_df.columns) : df.data[i][p] = metadata_df.data[l][p]

\* Row i of df is right row r: it stems from r and shows r's cells, the key
\* in the shared key column when the key names are equal.
CarriesRight(pairs, df, i, r) ==
    LET keep == RightKept(customer_df, meta_key, cust_key)
    IN /\ Origin(pairs, df, i)[2] = r
       /\ \A q \in 1..Len(keep) :
              df.data[i][Len(metadata_df.columns) + q] = customer_df.data[r][keep[q]]
       /\ SharedKey(meta_key, cust_key) =>
              df.data[i][ColPos(metadata_df, meta_key)] = KeyCell(customer_df, cust_key, r)

LeftRows == 1..Len(metadata_df.data)

RightRows == 1..Len(customer_df.data)

LeftTimes(pairs, df, l) ==
    Cardinality({i \in 1..Len(df.data) : CarriesLeft(pairs, df, i, l)})

RightTimes(pairs, df, r) ==
    Cardinality({i \in 1..Len(df.data) : CarriesRight(pairs, df, i, r)})

RightPartners(l) ==
    {r \in RightRows : KeyCell(customer_df, cust_key, r) = KeyCell(metadata_df, meta_key, l)}

LeftPartners(r) ==
    {l \in LeftRows : KeyCell(metadata_df, meta_key, l) = KeyCell(customer_df, cust_key, r)}

MatchReturned == pc = "match_done" /\ ret.kind = "return"

C3_CrossProduct ==
    MatchReturned =>
        \A k \in MatchKeyCells \cup PayloadCells :
            Cardinality({i \in 1..Len(matched_df.data) :
                            matched_df.data[i][ColPos(metadata_df, meta_key)] = k})
              = Cardinality({l \in LeftRows : KeyCell(metadata_df, meta_key, l) = k})
                * Cardinality({r \in RightRows : KeyCell(customer_df, cust_key, r) = k})

\* Two left rows and one right row share a key: two matched rows.
C3_Witness ==
    /\ MatchReturned
    /\ Len(metadata_df.data) = 2
    /\ Len(customer_df.data) = 1
    /\ KeyCell(metadata_df, meta_key, 1) = 2
    /\ KeyCell(metadata_df, meta_key, 2) = 2
    /\ KeyCell(customer_df, cust_key, 1) = 2
    /\ Len(matched_df.data) = 2
    /\ Len(unmatched_df.data) = 0

\* Output positions of the columns named after the right table's columns:
\* the kept right columns and, when the key names are equal, the key column.
RightSidePositions ==
    {Len(metadata_df.columns) + q :
         q \in 1..Len(RightKept(customer_df, meta_key, cust_key))}
    \cup (IF SharedKey(meta_key, cust_key) THEN {ColPos(metadata_df, meta_key)} ELSE {})

LeftSidePositions == 1..Len(metadata_df.columns)

SharedKeyPositions ==
    IF SharedKey(meta_key, cust_key) THEN {ColPos(metadata_df, meta_key)} ELSE {}

----------------------------------------------------------------------------
(* clean_column_headers applied, twice in a row, to a frame on the heap. *)

\* Longest generated column name.
MaxNameLen == 3

HeaderAlphabet == {"a", "B", "_", DOTTED_I}

HeaderNames == UNION {[1..n -> HeaderAlphabet] : n \in 1..MaxNameLen}

InitHeaders ==
    /\ pc = "clean_call"
    /\ \E name \in HeaderNames, n \in 0..1 :
          \E cols \in {<<name>>, <<name, ID>>} :
              heap = <<Frame(cols, [p \in 1..Len(cols) |-> "obj"],
                             [i \in 1..n |-> [p \in 1..Len(cols) |-> 1]])>>
    /\ call = [df |-> 1, before |-> heap[1], once |-> Null]
    /\ ret = Null
    /\ session_state = DefaultSession
    /\ metadata_df = EmptyFrame
    /\ customer_df = EmptyFrame
    /\ meta_key = Null
    /\ cust_key = Null
    /\ matched_df = Null
    /\ unmatched_df = Null
    /\ diag = <<>>
    /\ fault = "none"

CallCleanColumnHeaders ==
    /\ pc = "clean_call"
    /\ LET out == CleanColumnHeaders(heap, call.df)
       IN /\ heap' = out.heap
          /\ ret' = Return(out.val)
          /\ call' = [call EXCEPT !.once = out.heap[out.val].columns]
    /\ pc' = "clean_done"
    /\ UNCHANGED <<session_state, metadata_df, customer_df, meta_key, cust_key, matched_df,
                   unmatched_df, diag, fault>>

CallCleanColumnHeadersAgain ==
    /\ pc = "clean_done"
    /\ LET out == CleanColumnHeaders(heap, ret.val)
       IN /\ heap' = out.heap
          /\ ret' = Return(out.val)
    /\ pc' = "clean_twice"
    /\ UNCHANGED <<session_state, metadata_df, customer_df, meta_key, cust_key, matched_df,
                   unmatched_df, diag, fault, call>>

NextHeaders == CallCleanColumnHeaders \/ CallCleanColumnHeadersAgain

SpecHeaders == InitHeaders /\ [][NextHeaders]_vars

\* C6: after clean_column_headers the frame passed in still has its
\* original column names, and the result is another frame, with the renamed
\* columns and the same rows in the same order.
C6_InputNotMutated ==
    pc = "clean_done" =>
        /\ heap[call.df].columns = call.before.columns
        /\ ret.val # call.df
        /\ heap[ret.val].columns =
               [p \in 1..Len(call.before.columns) |-> CleanName(call.before.columns[p])]
        /\ heap[ret.val].data = call.before.data

\* C7: cleaning the headers a second time leaves the column names as the
\* first cleaning made them.
C7_Idempotent ==
    pc = "clean_twice" => heap[ret.val].columns = call.once

----------------------------------------------------------------------------
(* parse_metadata applied to every generated content, format and name. *)

FileTypes ==
    {<<"C", "S", "V">>, <<"J", "S", "O", "N">>, <<"X", "M", "L">>, <<"T", "X", "T">>,
     <<"c", "s", "v">>}

FileNames == {<<"m", ".", "c", "s", "v">>, <<"c", ".", "x", "m", "l">>}

Shapes == {"CSV", "JSON", "XML", "junk"}

\* The contents a file can have, its table drawn from the schemas given.
Contents(schemas) ==
    {NoContent, ZeroBytes}
    \cup UNION {UNION {{SomeBytes(u, sh, Frame(cols, DtypesOf(cols, kd, Len(d)), d)) :
                           u \in BOOLEAN, sh \in Shapes, kd \in {"num", "obj"},
                           d \in [1..n -> RowsOf(cols)]} :
                       n \in 0..MaxRows} : cols \in schemas}

InitParse ==
    /\ pc = "parse_call"
    /\ \E content \in Contents({<<ID, FILE>>}), ft \in FileTypes \cup {NoString},
          name \in FileNames :
          call = [file_content |-> content, filetype |-> ft, filename |-> name]
    /\ ret = Null
    /\ session_state = DefaultSession
    /\ metadata_df = EmptyFrame
    /\ customer_df = EmptyFrame
    /\ meta_key = Null
    /\ cust_key = Null
    /\ matched_df = Null
    /\ unmatched_df = Null
    /\ heap = <<>>
    /\ diag = <<>>
    /\ fault = "none"

CallParseMetadata ==
    /\ pc = "parse_call"
    /\ ret' = ParseMetadata(call.file_content, call.filetype, call.filename)
    /\ metadata_df' = ret'.val
    /\ diag' = diag \o ret'.diag
    /\ fault' = IF ret'.kind = "raise" THEN "raised" ELSE "none"
    /\ pc' = "parse_done"
    /\ UNCHANGED <<session_state, customer_df, meta_key, cust_key, matched_df, unmatched_df,
                   heap, call>>

NextParse == CallParseMetadata

SpecParse == InitParse /\ [][NextParse]_vars

\* The content is one the parser of the declared format turns into a table.
Parses(content, filetype) ==
    /\ content.kind = "bytes"
    /\ content.size > 0
    /\ \/ filetype = <<"C", "S", "V">> /\ content.utf8 /\ content.shape = "CSV"
       \/ filetype = <<"J", "S", "O", "N">> /\ content.utf8 /\ content.shape = "JSON"
       \/ filetype = <<"X", "M", "L">> /\ content.shape = "XML"

\* C5: parse_metadata always returns.  An unsupported format gives the
\* empty table and the 'unsupported' warning whatever the content is (also
\* content that cannot be decoded); a failed decode or parse of a supported
\* format gives the empty table and one error message naming the source.
C5_ParseNeverRaises ==
    pc = "parse_done" =>
        /\ ret.kind = "return"
        /\ fault = "none"
        /\ ~Supported(call.filetype) =>
               /\ metadata_df = EmptyFrame
               /\ Len(diag) = 1
               /\ diag[1].level = "warning"
        /\ (Supported(call.filetype) /\ ~Parses(call.file_content, call.filetype)) =>
               /\ metadata_df = EmptyFrame
               /\ Len(diag) = 1
               /\ diag[1].level = "error"
               /\ diag[1].source = call.filename
        /\ (Supported(call.filetype) /\ Parses(call.file_content, call.filetype)) =>
               diag = <<>>

\* A CSV parse of bytes that are not UTF-8 was caught and reported.
C5_Witness ==
    /\ pc = "parse_done"
    /\ call.filetype = <<"C", "S", "V">>
    /\ call.file_content.kind = "bytes"
    /\ ~call.file_content.utf8
    /\ ret.kind = "return"
    /\ metadata_df = EmptyFrame
    /\ Len(diag) = 1
    /\ diag[1].exc = "UnicodeDecodeError"

----------------------------------------------------------------------------
(* results_page: one reconciliation pass. *)

MetaFileKeys ==
    {<<"m", ".", "c", "s", "v">>, <<"m", ".", "x", "m", "l">>, <<"m", ".", "t", "x", "t">>}

CustFileKeys == {<<"c", ".", "c", "s", "v">>, <<"c", ".", "j", "s", "o", "n">>}

BUCKET == <<"b">>

\* What get_object can answer for a key besides a table: an error, or an
\* object whose bytes are empty or unreadable.
PlainResponses ==
    {Raise("ClientError"), Return(ZeroBytes),
     Return(SomeBytes(FALSE, "junk", EmptyFrame)), Return(SomeBytes(TRUE, "junk", EmptyFrame))}

\* An object holding a table in some format.
TableResponse(shape, cols, kd, d) ==
    Return(SomeBytes(TRUE, shape, Frame(cols, DtypesOf(cols, kd, Len(d)), d)))

StoredShapes == {"CSV", "JSON", "XML"}

Init ==
    /\ pc = "validate"
    /\ \E b \in {<<>>, BUCKET}, k \in {<<>>, NO_FILES} \cup MetaFileKeys,
          cb \in {<<>>, BUCKET}, ck \in {NO_FILES} \cup CustFileKeys :
          session_state = [page |-> "results", bucket_name |-> b, file_key |-> k,
                           cust_bucket_name |-> cb, cust_file_key |-> ck]
    /\ metadata_df = EmptyFrame
    /\ customer_df = EmptyFrame
    /\ meta_key = Null
    /\ cust_key = Null
    /\ matched_df = Null
    /\ unmatched_df = Null
    /\ heap = <<>>
    /\ diag = <<>>
    /\ fault = "none"
    /\ call = Null
    /\ ret = Null

\* reset_session: every key deleted, the page set to home, and the rerun's
\* main() puts the defaults back.
ResetSession ==
    /\ pc = "validate"
    /\ ~SessionValid(session_state)
    /\ diag' = Append(diag, [level |-> "error", text |-> "Invalid or missing session state",
                             source |-> NoString, exc |-> ""])
    /\ session_state' = DefaultSession
    /\ pc' = "home"
    /\ UNCHANGED <<metadata_df, customer_df, meta_key, cust_key, matched_df, unmatched_df,
                   heap, fault, call, ret>>

\* The locals of one fetch, as far as the rest of the pass reads them.
FetchLocals(f) == [has_content |-> Truthy(f.content), filename |-> f.filename]

\* Lines 330-339: fetch the metadata file, derive the file type, parse.
MetadataLoaded(response) ==
    \E f \in {FetchS3File(session_state.bucket_name, session_state.file_key, response)} :
    LET filetype == IF f.filename # NoString
                    THEN StrUpper(LastDotPart(f.filename)) ELSE NoString
        parsed == IF Truthy(f.content) /\ filetype # NoString
                  THEN ParseMetadata(f.content, filetype, f.filename)
                  ELSE [kind |-> "return", val |-> EmptyFrame, diag |-> <<>>]
    IN /\ call' = <<FetchLocals(f)>>
       /\ metadata_df' = parsed.val
       /\ diag' = diag \o f.diag \o parsed.diag
       /\ fault' = IF parsed.kind = "raise" THEN "parse_metadata" ELSE fault

LoadMetadata ==
    /\ pc = "validate"
    /\ SessionValid(session_state)
    /\ \/ \E response \in PlainResponses : MetadataLoaded(response)
       \/ \E cols \in LeftSchemas, n \in 0..MaxRows, sh \in StoredShapes,
             kd \in {"num", "obj"} :
             \E d \in [1..n -> RowsOf(cols)] :
                 MetadataLoaded(TableResponse(sh, cols, kd, d))
    /\ pc' = "load_customer"
    /\ UNCHANGED <<session_state, customer_df, meta_key, cust_key, matched_df,
                   unmatched_df, heap, ret>>

\* Lines 342-350: the same for the customer file.
CustomerLoaded(response) ==
    \E f \in {FetchS3File(session_state.cust_bucket_name,
                          session_state.cust_file_key, response)} :
    LET cust_filetype == IF f.filename # NoString
                         THEN StrUpper(LastDotPart(f.filename)) ELSE NoString
        parsed == IF Truthy(f.content)
                  THEN ParseMetadata(f.content, cust_filetype, f.filename)
                  ELSE [kind |-> "return", val |-> EmptyFrame, diag |-> <<>>]
    IN /\ call' = call \o <<FetchLocals(f)>>
       /\ customer_df' = parsed.val
       /\ diag' = diag \o f.diag \o parsed.diag
       /\ fault' = IF parsed.kind = "raise" THEN "parse_metadata" ELSE fault

LoadCustomer ==
    /\ pc = "load_customer"
    /\ fault = "none"
    /\ \/ \E response \in PlainResponses : CustomerLoaded(response)
       \/ \E cols \in RightSchemas, n \in 0..MaxRows, sh \in StoredShapes,
             kd \in {"num", "obj"} :
             \E d \in [1..n -> RowsOf(cols)] :
                 CustomerLoaded(TableResponse(sh, cols, kd, d))
    /\ pc' = "reconcile"
    /\ UNCHANGED <<session_state, metadata_df, meta_key, cust_key, matched_df,
                   unmatched_df, heap, ret>>

\* The two frames handed to st.dataframe, on the heap h: drop() makes new
\* frames, which clean_column_headers then renames in place.
Shown(h, matched, unmatched) ==
    LET first == CleanColumnHeaders(Append(h, DropColumn(matched, MERGE)), Len(h) + 1)
        second == CleanColumnHeaders(Append(first.heap, DropColumn(unmatched, MERGE)),
                                     Len(first.heap) + 1)
    IN [heap |-> second.heap, matched_df |-> first.val, unmatched_df |-> second.val]

\* Lines 352-377 when both frames hold data: infer the keys, match, drop the
\* indicator, clean the headers, show both tables.  An exception raised on
\* the way is not caught by results_page.
Reconcile ==
    /\ pc = "reconcile"
    /\ fault = "none"
    /\ ~IsEmpty(metadata_df) /\ ~IsEmpty(customer_df)
    /\ \E mk \in {DetectPrimaryKey(metadata_df)}, ck \in {DetectPrimaryKey(customer_df)} :
          IF mk.kind = "raise" \/ ck.kind = "raise"
          THEN /\ fault' = "IndexError"
               /\ pc' = "faulted"
               /\ UNCHANGED <<meta_key, cust_key, matched_df, unmatched_df, heap>>
          ELSE \E m \in {MatchData(metadata_df, customer_df, mk.val, ck.val)} :
                  /\ meta_key' = mk.val
                  /\ cust_key' = ck.val
                  /\ IF m.kind = "raise"
                     THEN /\ fault' = m.exc
                          /\ pc' = "faulted"
                          /\ UNCHANGED <<matched_df, unmatched_df, heap>>
                     ELSE \E s \in {Shown(heap, m.val[1], m.val[2])} :
                             /\ heap' = s.heap
                             /\ matched_df' = s.matched_df
                             /\ unmatched_df' = s.unmatched_df
                             /\ pc' = "shown"
                             /\ UNCHANGED fault
    /\ UNCHANGED <<session_state, metadata_df, customer_df, diag, call, ret>>

\* Lines 378-379: one of the frames is empty.
WarnNoData ==
    /\ pc = "reconcile"
    /\ fault = "none"
    /\ IsEmpty(metadata_df) \/ IsEmpty(customer_df)
    /\ diag' = Append(diag, [level |-> "warning", text |-> "No data found or parsing failed.",
                             source |-> NoString, exc |-> ""])
    /\ pc' = "warned"
    /\ UNCHANGED <<session_state, metadata_df, customer_df, meta_key, cust_key, matched_df,
                   unmatched_df, heap, fault, call, ret>>

Next == ResetSession \/ LoadMetadata \/ LoadCustomer \/ Reconcile \/ WarnNoData

Spec == Init /\ [][Next]_vars

\* One pass ended by showing the two tables.
PassShown == pc = "shown"

\* The unmatched table a pass over the frames left and right shows, with
\* the indicator of each of its rows; ok is FALSE when the pass faults.
ShownUnmatched(left, right) ==
    LET lk == DetectPrimaryKey(left)
        rk == DetectPrimaryKey(right)
        m == MatchData(left, right, lk.val, rk.val)
        s == Shown(<<>>, m.val[1], m.val[2])
        none == [ok |-> FALSE, frame |-> EmptyFrame, side |-> <<>>]
    IN IF lk.kind = "raise" \/ rk.kind = "raise" THEN none
       ELSE IF m.kind = "raise" THEN none
       ELSE [ok |-> TRUE,
             frame |-> s.heap[s.unmatched_df],
             side |-> [i \in 1..Len(m.val[2].data) |->
                          m.val[2].data[i][Len(m.val[2].columns)]]]

\* C9: the shown unmatched table tells which side each row came from: no
\* pass over other inputs (here, the same two frames with the sides
\* exchanged) shows a table with the same columns and the same row but the
\* row from the other side; and two key columns of different names are
\* both columns of the shown tables.
C9_SideRecoverable ==
    PassShown =>
        /\ \A here \in {ShownUnmatched(metadata_df, customer_df)},
              there \in {ShownUnmatched(customer_df, metadata_df)} :
               (here.ok /\ there.ok /\ here.frame.columns = there.frame.columns) =>
                   \A i \in 1..Len(here.frame.data), j \in 1..Len(there.frame.data) :
                       here.frame.data[i] = there.frame.data[j] =>
                           here.side[i] = there.side[j]
        /\ meta_key # cust_key =>
               \E p, q \in 1..Len(heap[unmatched_df].columns) :
                   /\ p # q
                   /\ heap[unmatched_df].columns[p] = CleanName(meta_key)
                   /\ heap[unmatched_df].columns[q] = CleanName(cust_key)

\* C10: a pass never ends in an unhandled exception; a failed or empty
\* retrieval leaves an empty frame; keys are inferred and rows matched only
\* when both frames hold data, and otherwise the pass ends with the warning
\* and shows no table.
C10_PassRunsToEnd ==
    /\ fault = "none"
    /\ pc # "faulted"
    /\ (pc \in {"load_customer", "reconcile", "shown", "warned"} /\ ~call[1].has_content) =>
           metadata_df = EmptyFrame
    /\ (pc \in {"reconcile", "shown", "warned"} /\ ~call[2].has_content) =>
           customer_df = EmptyFrame
    /\ pc = "shown" => ~IsEmpty(metadata_df) /\ ~IsEmpty(customer_df)
    /\ pc = "warned" =>
           /\ IsEmpty(metadata_df) \/ IsEmpty(customer_df)
           /\ diag[Len(diag)].level = "warning"
           /\ meta_key = Null /\ cust_key = Null
           /\ matched_df = Null /\ unmatched_df = Null

====
